---- MODULE Spec2Model ----
(***************************************************************************)
(* Model of the secos-backports data pipeline for one package:             *)
(*   data/convert.py  removes prereleases and duplicated versions, then    *)
(*                    ranks the releases by version and by date;           *)
(*   data/prepare.py  drops inactive and unused packages, tags every       *)
(*                    release with its update kind and its backport        *)
(*                    status, converts constraints to intervals and finds  *)
(*                    the release each constraint selects.                 *)
(* A table (pandas DataFrame) of one package is a set of rows; every sort  *)
(* the scripts perform on it has a key that is unique among the rows, so   *)
(* the sorted frame is the sequence SortBy... builds from the set.         *)
(* Dates are integers on a time axis on which DISTANT_DATE is 1900-01-01   *)
(* and MIN_ACTIVE is 2019-01-01; the scripts only compare dates and take   *)
(* absolute differences of them.                                           *)
(*                                                                         *)
(* Three specifications:                                                   *)
(*   Spec         convert.py followed by prepare.py up to the saving of    *)
(*                df_required: the releases prepare.py classifies are      *)
(*                those convert.py ranked;                                 *)
(*   SpecPrepare  prepare.py up to the saving of df_required, on any       *)
(*                releases file with dense ranks;                          *)
(*   SpecSelect   prepare.py from the saved df_required on: constraints    *)
(*                to intervals, then the selected releases.                *)
(* version.py and parsers.py are not among the sources: Version, Interval  *)
(* and the parsers follow their description in the specification.          *)
(***************************************************************************)
EXTENDS Integers, Sequences, FiniteSets

VARIABLES pc, df_releases, nb_dependents, df_required, intervals, data

vars == <<pc, df_releases, nb_dependents, df_required, intervals, data>>

(* ------------------------------ bounds -------------------------------- *)

\* Largest number of rows read from a releases file.
MaxReleases == 3

\* Dates range over 0..MaxDate.
MaxDate == 3

\* Largest number of dependent packages of the package.
MaxDependents == 5

\* Largest number of distinct constraints that reference the package.
MaxConstraints == 2

Dates == 0..MaxDate

\* The (major, minor, patch) triples that occur in the releases file.
Versions ==
    { <<1, 0, 0>>, <<1, 2, 3>>, <<1, 2, 4>>, <<2, 0, 0>>, <<2, 1, 0>> }

(* ------------------------- program constants -------------------------- *)

\* pandas.to_datetime('1900-01-01'), the date given to a missing next release.
DISTANT_DATE == 1

\* MIN_ACTIVE = pandas.to_datetime('2019-01-01').
MIN_ACTIVE == 2

\* MIN_REQUIRED = 5, the minimum number of dependents.
MIN_REQUIRED == 5

(* --------------------------- missing values --------------------------- *)

\* A nullable cell is a set with at most one element; NaN / NaT is the
\* empty one.
NaN == {}

Some(x) == {x}

IsNull(cell) == cell = {}

Value(cell) == CHOOSE x \in cell : TRUE

Abs(x) == IF x < 0 THEN 0 - x ELSE x

Max(S) == CHOOSE x \in S : \A y \in S : y <= x

(* ------------------------------ Version ------------------------------- *)

\* float('inf') as a version component: greater than every finite number.
Inf == 1000

\* Version(major, minor, patch).
Version(major, minor, patch) == <<major, minor, patch>>

\* Version.__lt__: lexicographic order of (major, minor, patch).
VersionLess(a, b) ==
    \/ a[1] < b[1]
    \/ a[1] = b[1] /\ a[2] < b[2]
    \/ a[1] = b[1] /\ a[2] = b[2] /\ a[3] < b[3]

VersionLeq(a, b) == a = b \/ VersionLess(a, b)

(* ------------------------------ Interval ------------------------------ *)

\* The infinity sentinel as an upper bound: unbounded above.
Unbounded == Version(Inf, Inf, Inf)

\* The versions that bound the ranges of the parsed constraints.
BoundPoints == { <<0, 1, 0>>, <<1, 0, 0>>, <<1, 2, 3>>, <<1, 3, 0>>, <<2, 0, 0>> }

\* A range: lower bound inclusive, upper bound exclusive or unbounded.
Ranges ==
    { r \in [lower : BoundPoints, upper : BoundPoints \cup {Unbounded}] :
        VersionLess(r.lower, r.upper) }

\* Interval: a sorted sequence of disjoint, non-adjacent ranges.
Intervals ==
    {<<>>} \cup { <<r>> : r \in Ranges }
           \cup { <<r[1], r[2]>> :
                    r \in { q \in Ranges \X Ranges : VersionLess(q[1].upper, q[2].lower) } }

\* Interval.empty().
EmptyInterval == <<>>

\* interval.empty
IsEmpty(interval) == interval = <<>>

\* interval.lower: the lower bound of the lowest range.
Lower(interval) == interval[1].lower

\* version in interval
Contains(interval, version) ==
    \E i \in DOMAIN interval :
        /\ VersionLeq(interval[i].lower, version)
        /\ interval[i].upper = Unbounded \/ VersionLess(version, interval[i].upper)

\* version > interval: the version lies above the whole interval.
Above(version, interval) ==
    /\ interval[Len(interval)].upper # Unbounded
    /\ VersionLeq(interval[Len(interval)].upper, version)

\* The constraint strings, each identified with what parser.parse does
\* with it: it yields an Interval, or it fails.
Constraints ==
    [failed : {FALSE}, interval : Intervals] \cup [failed : {TRUE}, interval : {EmptyInterval}]

\* parse_or_empty(parser, constraint): the empty interval on a failure.
parse_or_empty(constraint) ==
    IF constraint.failed THEN EmptyInterval ELSE constraint.interval

(* ----------------------------- sorting -------------------------------- *)

\* (major, minor, patch) order of sort_values(['major', 'minor', 'patch']);
\* the three columns of a row are the components of its version.
ComponentsLeq(r, s) ==
    \/ r.version[1] < s.version[1]
    \/ r.version[1] = s.version[1] /\ r.version[2] < s.version[2]
    \/ r.version[1] = s.version[1] /\ r.version[2] = s.version[2]
          /\ r.version[3] <= s.version[3]

\* DataFrame.sort_values(['major', 'minor', 'patch']) of rows whose
\* versions are pairwise distinct.
RECURSIVE SortByVersion(_)
SortByVersion(rows) ==
    IF rows = {} THEN <<>>
    ELSE LET first == CHOOSE r \in rows : \A s \in rows : ComponentsLeq(r, s)
         IN  <<first>> \o SortByVersion(rows \ {first})

\* Mutant of DateRankLeq: same-date rows in descending rank.
DateRankLeqDescendingTie(r, s) ==
    \/ r.date < s.date
    \/ r.date = s.date /\ r.rank >= s.rank

\* (date, rank) order of sort_values(['date', 'rank']).
DateRankLeq(r, s) ==
    \/ r.date < s.date
    \/ r.date = s.date /\ r.rank <= s.rank

\* DataFrame.sort_values(['date', 'rank']) of rows whose ranks are
\* pairwise distinct.
RECURSIVE SortByDateRank(_)
SortByDateRank(rows) ==
    IF rows = {} THEN <<>>
    ELSE LET first == CHOOSE r \in rows : \A s \in rows : DateRankLeq(r, s)
         IN  <<first>> \o SortByDateRank(rows \ {first})

\* DataFrame.sort_values('rank') of rows whose ranks are pairwise distinct.
RECURSIVE SortByRank(_)
SortByRank(rows) ==
    IF rows = {} THEN <<>>
    ELSE LET first == CHOOSE r \in rows : \A s \in rows : r.rank <= s.rank
         IN  <<first>> \o SortByRank(rows \ {first})

(* --------------------------- data/convert.py -------------------------- *)

\* A row of the raw releases file once its version is split by Version.RE:
\* misc is TRUE when the version carries a qualifier (a prerelease).
RawRows == [version : Versions, misc : BOOLEAN, date : Dates]

\* Remove prereleases and duplicates: keep the rows without qualifier,
\* sort by date and keep the last row of every (major, minor, patch).
RemoveDuplicates(rows) ==
    LET stable == { r \in rows : ~r.misc }
        last(v) == Max({ r.date : r \in { s \in stable : s.version = v } })
    IN  { [version |-> r.version, date |-> r.date] :
            r \in { s \in stable : s.date = last(s.version) } }

\* Rank by version: the cumulative count over the version-sorted rows.
RankByVersion(rows) ==
    LET sorted == SortByVersion(rows)
    IN  { [version |-> sorted[i].version, date |-> sorted[i].date, rank |-> i] :
            i \in DOMAIN sorted }

\* Rank by date: the cumulative count over the (date, rank)-sorted rows.
RankByDate(rows) ==
    LET sorted == SortByDateRank(rows)
    IN  { [version |-> sorted[i].version, date |-> sorted[i].date,
           rank |-> sorted[i].rank, rank_date |-> i] : i \in DOMAIN sorted }

\* Ordering releases by version and date.
OrderByVersionAndDate(rows) == RankByDate(RankByVersion(rows))

Init ==
    /\ pc = "read"
    /\ df_releases = {}
    /\ nb_dependents = 0
    /\ df_required = {}
    /\ intervals = <<>>
    /\ data = <<>>

\* pandas.read_csv of the raw releases file, one row at a time.
ReadRelease ==
    /\ pc = "read"
    /\ Cardinality(df_releases) < MaxReleases
    /\ \E r \in RawRows : df_releases' = df_releases \cup {r}
    /\ UNCHANGED <<pc, nb_dependents, df_required, intervals, data>>

\* Remove prereleases and duplicates.
RemovePrereleases ==
    /\ pc = "read"
    /\ df_releases' = RemoveDuplicates(df_releases)
    /\ pc' = "deduplicated"
    /\ UNCHANGED <<nb_dependents, df_required, intervals, data>>

\* Ordering releases by version and date, and persisting them.
OrderReleases ==
    /\ pc = "deduplicated"
    /\ df_releases' = OrderByVersionAndDate(df_releases)
    /\ pc' = "releases"
    /\ UNCHANGED <<nb_dependents, df_required, intervals, data>>

(* --------------------- data/prepare.py: filtering --------------------- *)

\* Removing inactive packages: the package is kept when its last release in
\* rank_date order is dated MIN_ACTIVE or later.
IsActive(rows) ==
    /\ rows # {}
    /\ LET last == CHOOSE r \in rows : \A s \in rows : s.rank_date <= r.rank_date
       IN  last.date >= MIN_ACTIVE

\* Removing unused packages: the package is required when at least
\* MIN_REQUIRED packages depend on it.
IsRequired(count) == count >= MIN_REQUIRED

(* ------------------- data/prepare.py: update kinds -------------------- *)

\* Series.clip(lower, upper).
Clip(x, lower, upper) == IF x < lower THEN lower ELSE IF x > upper THEN upper ELSE x

\* (column - column.shift(1)).clip(0, 1).astype(bool): the shifted cell of
\* the first row is NaN, the difference is NaN, and bool(NaN) is True.
PositiveDelta(previous, current) ==
    IF IsNull(previous) THEN TRUE ELSE Clip(current - Value(previous), 0, 1) # 0

\* The columns kinitial, kmajor, kminor, kpatch of a row; previous is the
\* shifted row, NaN for the first row of the rank-sorted frame.
KindFlags(previous, current) ==
    LET shifted(k) == IF IsNull(previous) THEN NaN ELSE Some(Value(previous).version[k])
    IN  << IsNull(shifted(1)),
           PositiveDelta(shifted(1), current.version[1]),
           PositiveDelta(shifted(2), current.version[2]),
           PositiveDelta(shifted(3), current.version[3]) >>

\* Mutant of IdxMax: the last column that holds the row's maximum.
IdxMaxLast(flags) ==
    LET top == \E i \in DOMAIN flags : flags[i]
    IN  CHOOSE i \in DOMAIN flags :
            /\ flags[i] = top
            /\ \A j \in DOMAIN flags : flags[j] = top => j <= i

\* DataFrame.idxmax(axis=1) of a row of booleans: the first column that
\* holds the row's maximum.
IdxMax(flags) ==
    LET top == \E i \in DOMAIN flags : flags[i]
    IN  CHOOSE i \in DOMAIN flags :
            /\ flags[i] = top
            /\ \A j \in DOMAIN flags : flags[j] = top => i <= j

\* replace({'kind': {'kinitial': 'initial', ...}}) on the column labels.
KindNames == <<"initial", "major", "minor", "patch">>

\* Identify update kind for each release of the rank-sorted frame.
UpdateKind(sorted, i) ==
    KindNames[IdxMax(KindFlags(IF i = 1 THEN NaN ELSE Some(sorted[i - 1]), sorted[i]))]

(* --------------------- data/prepare.py: backports --------------------- *)

\* Mutant of HighestMajor: the maximum of the whole column.
HighestMajorOfFrame(chrono, i) == Max({ chrono[j].version[1] : j \in DOMAIN chrono })

\* Series.expanding().max() at position i of the chronological frame.
HighestMajor(chrono, i) == Max({ chrono[j].version[1] : j \in 1..i })

HighestRank(chrono, i) == Max({ chrono[j].rank : j \in 1..i })

\* backported = highest_rank where major < highest_major, NaN elsewhere.
BackportedRank(chrono, i) ==
    IF chrono[i].version[1] < HighestMajor(chrono, i)
    THEN Some(HighestRank(chrono, i))
    ELSE NaN

\* Left merge on backported = rank: the "previous" release.
PreviousRelease(rows, backported) == { r \in rows : Some(r.rank) = backported }

\* Mutant of NextRelease: the merge key is rank + 1.
NextReleaseBelow(rows, backported) == { r \in rows : Some(r.rank + 1) = backported }

\* Left merge on backported = rank - 1: the "next" release.
NextRelease(rows, backported) == { r \in rows : Some(r.rank - 1) = backported }

\* date_previous and rank_previous of the merged row.
DatePrevious(rows, backported) == { r.date : r \in PreviousRelease(rows, backported) }

RankPrevious(rows, backported) == { r.rank : r \in PreviousRelease(rows, backported) }

\* date_next after fillna: a very distant date if no next rank exists.
DateNext(rows, backported) ==
    LET found == { r.date : r \in NextRelease(rows, backported) }
    IN  IF IsNull(found) THEN Some(DISTANT_DATE) ELSE found

\* rank_next: the merged rank - 1, plus 1.
RankNext(rows, backported) == { (r.rank - 1) + 1 : r \in NextRelease(rows, backported) }

\* Mutant of PreviousIsClosest: the comparison reversed.
PreviousIsFarthest(date, date_previous, date_next) ==
    /\ ~IsNull(date_previous)
    /\ ~IsNull(date_next)
    /\ Abs(date - Value(date_previous)) >= Abs(date - Value(date_next))

\* Mutant of PreviousIsClosest: a strict comparison.
PreviousIsStrictlyClosest(date, date_previous, date_next) ==
    /\ ~IsNull(date_previous)
    /\ ~IsNull(date_next)
    /\ Abs(date - Value(date_previous)) < Abs(date - Value(date_next))

\* abs(date - date_previous) <= abs(date - date_next); a comparison with
\* NaT is False.
PreviousIsClosest(date, date_previous, date_next) ==
    /\ ~IsNull(date_previous)
    /\ ~IsNull(date_next)
    /\ Abs(date - Value(date_previous)) <= Abs(date - Value(date_next))

\* Take closest date: rank_previous where the previous release is at least
\* as close as the next one, rank_next elsewhere.
BackportedFrom(rows, date, backported) ==
    IF PreviousIsClosest(date, DatePrevious(rows, backported), DateNext(rows, backported))
    THEN RankPrevious(rows, backported)
    ELSE RankNext(rows, backported)

\* The body of the loop over the required packages: update kinds in rank
\* order, then backports in chronological order.
IdentifyBackportedUpdates(rows) ==
    LET sorted == SortByRank(rows)
        kinds  == { [version |-> sorted[i].version, date |-> sorted[i].date,
                     rank |-> sorted[i].rank, rank_date |-> sorted[i].rank_date,
                     kind |-> UpdateKind(sorted, i)] : i \in DOMAIN sorted }
        chrono == SortByDateRank(kinds)
    IN  { [version |-> chrono[i].version, date |-> chrono[i].date,
           rank |-> chrono[i].rank, rank_date |-> chrono[i].rank_date,
           kind |-> chrono[i].kind,
           backported |-> ~IsNull(BackportedRank(chrono, i)),
           backported_from |->
               BackportedFrom(kinds, chrono[i].date, BackportedRank(chrono, i))] :
            i \in DOMAIN chrono }

\* Removing inactive packages.
RemoveInactive ==
    /\ pc = "releases"
    /\ df_releases' = IF IsActive(df_releases) THEN df_releases ELSE {}
    /\ pc' = "active"
    /\ UNCHANGED <<nb_dependents, df_required, intervals, data>>

\* Removing unused packages: count the packages whose last release depends
\* on the package (none if the package was dropped as inactive).
RemoveUnused ==
    /\ pc = "active"
    /\ \E count \in 0..MaxDependents :
          /\ df_releases = {} => count = 0
          /\ nb_dependents' = count
    /\ pc' = "dependents"
    /\ UNCHANGED <<df_releases, df_required, intervals, data>>

\* Identifying backported updates of the package if it is required.
IdentifyBackported ==
    /\ pc = "dependents"
    /\ df_required' = IF IsRequired(nb_dependents)
                      THEN IdentifyBackportedUpdates(df_releases)
                      ELSE {}
    /\ pc' = "required"
    /\ UNCHANGED <<df_releases, nb_dependents, intervals, data>>

Prepare == RemoveInactive \/ RemoveUnused \/ IdentifyBackported

Next == ReadRelease \/ RemovePrereleases \/ OrderReleases \/ Prepare

Spec == Init /\ [][Next]_vars

(* -------------- data/prepare.py on any releases file ------------------ *)

\* pandas.read_csv of the releases file, before its first row.
InitPrepare ==
    /\ pc = "releases"
    /\ df_releases = {}
    /\ nb_dependents = 0
    /\ df_required = {}
    /\ intervals = <<>>
    /\ data = <<>>

\* pandas.read_csv of a releases file, one row at a time: rank is dense
\* and rank_date follows (date, rank), the version and the date are any.
ReadRankedRelease ==
    /\ pc = "releases"
    /\ Cardinality(df_releases) < MaxReleases
    /\ \E version \in Versions, date \in Dates :
          df_releases' =
              RankByDate({ [version |-> r.version, date |-> r.date, rank |-> r.rank] :
                             r \in df_releases }
                         \cup { [version |-> version, date |-> date,
                                 rank |-> Cardinality(df_releases) + 1] })
    /\ UNCHANGED <<pc, nb_dependents, df_required, intervals, data>>

NextPrepare == ReadRankedRelease \/ Prepare

SpecPrepare == InitPrepare /\ [][NextPrepare]_vars

(* ----------------- data/prepare.py: constraints ----------------------- *)

\* Mutant of Descriptors: minor and patch probe each other's version.
DescriptorsSwapped(interval) ==
    IF IsEmpty(interval)
    THEN [interval |-> interval, empty |-> TRUE,
          major |-> FALSE, minor |-> FALSE, patch |-> FALSE, dev |-> FALSE]
    ELSE LET base == Lower(interval)
         IN  [interval |-> interval,
              empty |-> FALSE,
              major |-> Contains(interval, Version(Inf, 0, 0)),
              minor |-> Contains(interval, Version(base[1], base[2], Inf)),
              patch |-> Contains(interval, Version(base[1], Inf, 0)),
              dev   |-> Above(Version(1, 0, 0), interval)]

\* The dictionary d built for one constraint from its interval.
Descriptors(interval) ==
    IF IsEmpty(interval)
    THEN [interval |-> interval, empty |-> TRUE,
          major |-> FALSE, minor |-> FALSE, patch |-> FALSE, dev |-> FALSE]
    ELSE LET base == Lower(interval)
         IN  [interval |-> interval,
              empty |-> FALSE,
              major |-> Contains(interval, Version(Inf, 0, 0)),
              minor |-> Contains(interval, Version(base[1], Inf, 0)),
              patch |-> Contains(interval, Version(base[1], base[2], Inf)),
              dev   |-> Above(Version(1, 0, 0), interval)]

\* Mutant of TargetReleases: the frame sorted by ascending rank.
TargetReleasesAscending(frame) == SortByRank(frame)

\* target_releases: the frame sorted by descending rank.
TargetReleases(frame) ==
    LET ascending == SortByRank(frame)
    IN  [i \in DOMAIN ascending |-> ascending[Len(ascending) + 1 - i]]

\* Mutant of SelectFrom: the scan does not stop at the first accepted
\* release.
RECURSIVE SelectLastFrom(_, _, _)
SelectLastFrom(releases, i, interval) ==
    IF i > Len(releases) THEN NaN
    ELSE LET later == SelectLastFrom(releases, i + 1, interval)
         IN  IF ~IsNull(later) THEN later
             ELSE IF Contains(interval, releases[i].version)
                  THEN Some(releases[i].rank)
                  ELSE NaN

\* The scan of target_releases from position i: the rank of the first
\* release whose version is in the interval, NaN if there is none.
RECURSIVE SelectFrom(_, _, _)
SelectFrom(releases, i, interval) ==
    IF i > Len(releases) THEN NaN
    ELSE IF Contains(interval, releases[i].version)
         THEN Some(releases[i].rank)
         ELSE SelectFrom(releases, i + 1, interval)

\* The row appended to data for one constraint of the target.
Selection(frame, d) ==
    [selected |-> SelectFrom(TargetReleases(frame), 1, d.interval),
     c_empty |-> d.empty, c_dev |-> d.dev,
     c_major |-> d.major, c_minor |-> d.minor, c_patch |-> d.patch]

\* Converting constraints to intervals: one iteration of the loop over the
\* distinct constraints, which stores d under the constraint.
ConvertConstraint ==
    /\ pc = "required"
    /\ df_required # {}
    /\ Cardinality(DOMAIN intervals) < MaxConstraints
    /\ \E constraint \in Constraints \ DOMAIN intervals :
          intervals' =
              [c \in DOMAIN intervals \cup {constraint} |->
                  IF c = constraint THEN Descriptors(parse_or_empty(c)) ELSE intervals[c]]
    /\ UNCHANGED <<pc, df_releases, nb_dependents, df_required, data>>

\* Identify selected releases: the loop over the constraints of the target.
IdentifySelected ==
    /\ pc = "required"
    /\ DOMAIN intervals # {}
    /\ data' = [c \in DOMAIN intervals |-> Selection(df_required, intervals[c])]
    /\ pc' = "selected"
    /\ UNCHANGED <<df_releases, nb_dependents, df_required, intervals>>

Select == ConvertConstraint \/ IdentifySelected

\* The frames of required packages whose releases all bear the date
\* MIN_ACTIVE: the selector reads the version and the rank of a release,
\* which do not depend on its date.
RequiredFrames ==
    { IdentifyBackportedUpdates(OrderByVersionAndDate(
          [version : versions, date : {MIN_ACTIVE}])) :
        versions \in { S \in SUBSET Versions : S # {} /\ Cardinality(S) <= MaxReleases } }

\* df_required as saved for a required package.
InitSelect ==
    /\ pc = "required"
    /\ df_required \in RequiredFrames
    /\ df_releases = {}
    /\ nb_dependents = MIN_REQUIRED
    /\ intervals = <<>>
    /\ data = <<>>

SpecSelect == InitSelect /\ [][Select]_vars

\* Every frame the pipeline leaves in df_required gives the selector the
\* target_releases of a frame of RequiredFrames.
RequiredFramesCoverPipeline ==
    (pc = "required" /\ df_required # {}) =>
        LET view(frame) ==
                [i \in DOMAIN TargetReleases(frame) |->
                    <<TargetReleases(frame)[i].version, TargetReleases(frame)[i].rank>>]
        IN  view(df_required) \in { view(f) : f \in RequiredFrames }

(* ------------------------------ claims -------------------------------- *)

\* The classified releases of the package, once the loop body has run.
Classified == IF pc = "required" THEN df_required ELSE {}

\* s precedes r in chronological order: ascending date, ties broken by
\* ascending version_rank.
Precedes(s, r) == s.date < r.date \/ (s.date = r.date /\ s.rank < r.rank)

\* R of a release b: the maximum version_rank among the releases up to and
\* including b in chronological order.
RunningRank(b) ==
    Max({ s.rank : s \in { t \in Classified : t = b \/ Precedes(t, b) } })

\* The releases of the package that hold a given version_rank.
Ranked(k) == { r \in Classified : r.rank = k }

\* Absolute date distance between two releases.
Distance(r, s) == Abs(r.date - s.date)

\* C1: a release is flagged backported if and only if a release of the
\* package that precedes it in chronological order (date, then
\* version_rank) has a strictly greater major.
C1_BackportedIffEarlierGreaterMajor ==
    \A r \in Classified :
        r.backported <=>
            \E s \in Classified : Precedes(s, r) /\ s.version[1] > r.version[1]

\* A backported release, together with a release of greater major and later
\* date that must not be flagged.
C1_Witness ==
    \E r, s, t \in Classified :
        /\ r.backported /\ Precedes(s, r) /\ s.version[1] > r.version[1]
        /\ ~t.backported /\ Precedes(r, t) /\ r.version[1] < t.version[1]

\* C2: when the releases ranked R and R+1 both exist and lie at different
\* date distances from a backported release b, backported_from is the rank
\* of the strictly closer one.
C2_ClosestCandidate ==
    \A b \in Classified :
        b.backported =>
            \A p \in Ranked(RunningRank(b)) :
                \A n \in Ranked(RunningRank(b) + 1) :
                    /\ Distance(b, p) < Distance(b, n) => b.backported_from = Some(p.rank)
                    /\ Distance(b, n) < Distance(b, p) => b.backported_from = Some(n.rank)

\* A backported release whose R candidate is strictly closer than its R+1
\* candidate.
C2_Witness ==
    \E b \in Classified :
        /\ b.backported
        /\ \E p \in Ranked(RunningRank(b)) :
              \E n \in Ranked(RunningRank(b) + 1) :
                  /\ Distance(b, p) < Distance(b, n)
                  /\ b.backported_from = Some(p.rank)

\* C3 as stated: when both candidates are at the same date distance from a
\* backported release, backported_from is R+1.
C3_TieResolvesToNext ==
    \A b \in Classified :
        b.backported =>
            \A p \in Ranked(RunningRank(b)) :
                \A n \in Ranked(RunningRank(b) + 1) :
                    Distance(b, p) = Distance(b, n) => b.backported_from = Some(n.rank)

\* C3 amended: when both candidates are at the same date distance from a
\* backported release, backported_from is R.
C3_TieResolvesToPrevious ==
    \A b \in Classified :
        b.backported =>
            \A p \in Ranked(RunningRank(b)) :
                \A n \in Ranked(RunningRank(b) + 1) :
                    Distance(b, p) = Distance(b, n) => b.backported_from = Some(p.rank)

\* A backported release at equal, non-zero distance from both candidates.
C3_Witness ==
    \E b \in Classified :
        /\ b.backported
        /\ \E p \in Ranked(RunningRank(b)) :
              \E n \in Ranked(RunningRank(b) + 1) :
                  /\ Distance(b, p) = Distance(b, n)
                  /\ Distance(b, p) > 0
                  /\ b.backported_from = Some(p.rank)

\* C4: a backported release for which no release is ranked R+1 has
\* backported_from equal to R, never absent, whatever the dates.
C4_MissingNextNeverChosen ==
    \A b \in Classified :
        (b.backported /\ Ranked(RunningRank(b) + 1) = {}) =>
            b.backported_from = Some(RunningRank(b))

\* The first positive delta among major, minor, patch, as a kind; "none" if
\* no delta is positive.
FirstPositive(previous, current) ==
    IF current.version[1] > previous.version[1] THEN "major"
    ELSE IF current.version[2] > previous.version[2] THEN "minor"
    ELSE IF current.version[3] > previous.version[3] THEN "patch"
    ELSE "none"

\* The predecessors of a release in ascending version_rank order.
Predecessor(r) ==
    { p \in Classified :
        /\ p.rank < r.rank
        /\ \A q \in Classified : q.rank < r.rank => q.rank <= p.rank }

\* C5: in version_rank order the release without predecessor is initial,
\* every other release that differs from its predecessor has as kind the
\* first of major, minor, patch with a positive delta, and exactly one
\* release of the package is initial.
C5_UpdateKinds ==
    /\ \A r \in Classified :
          /\ Predecessor(r) = {} => r.kind = "initial"
          /\ \A p \in Predecessor(r) :
                r.version # p.version => r.kind = FirstPositive(p, r)
    /\ Classified # {} => Cardinality({ r \in Classified : r.kind = "initial" }) = 1

\* A release whose major grew while its minor and patch shrank (tagged
\* major), in a package that also holds a patch release.
C5_Witness ==
    \E r, q \in Classified :
        /\ \E p \in Predecessor(r) :
              /\ r.version[1] > p.version[1]
              /\ r.version[2] < p.version[2]
              /\ r.kind = "major"
        /\ q.kind = "patch"

Selected == IF pc = "selected" THEN DOMAIN data ELSE {}

\* The releases of the target that the interval of constraint c contains.
Accepted(c) == { r \in df_required : Contains(intervals[c].interval, r.version) }

\* C7: selected is the greatest version_rank among the releases of the
\* target contained in the interval of the constraint, and is absent if and
\* only if no release is contained (as whenever the interval is empty).
C7_SelectedIsHighestAccepted ==
    \A c \in Selected :
        /\ IsNull(data[c].selected) <=> Accepted(c) = {}
        /\ Accepted(c) # {} =>
              data[c].selected = Some(Max({ r.rank : r \in Accepted(c) }))
        /\ IsEmpty(intervals[c].interval) => IsNull(data[c].selected)

\* A constraint that accepts two releases but not the highest one, beside
\* an empty constraint with no selection.
C7_Witness ==
    \E c, e \in Selected :
        /\ Cardinality(Accepted(c)) >= 2
        /\ data[c].selected # Some(Cardinality(df_required))
        /\ ~IsNull(data[c].selected)
        /\ IsEmpty(intervals[e].interval) /\ IsNull(data[e].selected)

\* The versions on which two intervals are compared: the releases, the
\* bounds of the ranges and the probes of the descriptors.
VersionSpace ==
    Versions \cup BoundPoints \cup
        { Version(m, n, p) : m \in {0, 1, 2, Inf}, n \in {0, Inf}, p \in {0, Inf} }

\* Every version contained in I is contained in J.
Within(I, J) == \A v \in VersionSpace : Contains(I, v) => Contains(J, v)

\* C8: for two intervals I within J over the same releases, a selection
\* under I implies a selection under J of greater or equal version_rank.
C8_SelectionMonotonic ==
    \A c, w \in Selected :
        (Within(intervals[c].interval, intervals[w].interval)
            /\ ~IsNull(data[c].selected)) =>
                /\ ~IsNull(data[w].selected)
                /\ Value(data[w].selected) >= Value(data[c].selected)

\* A bounded interval and the same interval widened to unbounded, which
\* selects a strictly higher release.
C8_Witness ==
    \E c, w \in Selected :
        /\ Len(intervals[c].interval) = 1 /\ Len(intervals[w].interval) = 1
        /\ intervals[c].interval[1].lower = intervals[w].interval[1].lower
        /\ intervals[c].interval[1].upper # Unbounded
        /\ intervals[w].interval[1].upper = Unbounded
        /\ ~IsNull(data[c].selected)
        /\ Value(data[w].selected) > Value(data[c].selected)

\* The constraints converted so far.
Converted == DOMAIN intervals

\* C9: the descriptors are a fixed function of the interval: an empty
\* interval has empty true and the others false; a non-empty one with
\* lowest bound L has empty false, major iff (inf, 0, 0) is contained,
\* minor iff (L.major, inf, 0) is, patch iff (L.major, L.minor, inf) is, and
\* dev iff (1, 0, 0) lies above it; [1.0.0, unbounded) has major true and
\* [1.2.3, 1.3.0) has patch true and minor false.
C9_Descriptors ==
    \A c \in Converted :
        LET d == intervals[c]
            I == d.interval
        IN  /\ IsEmpty(I) =>
                  d.empty /\ ~d.major /\ ~d.minor /\ ~d.patch /\ ~d.dev
            /\ ~IsEmpty(I) =>
                  /\ ~d.empty
                  /\ d.major <=> Contains(I, <<Inf, 0, 0>>)
                  /\ d.minor <=> Contains(I, <<I[1].lower[1], Inf, 0>>)
                  /\ d.patch <=> Contains(I, <<I[1].lower[1], I[1].lower[2], Inf>>)
                  /\ d.dev <=> \A v \in VersionSpace :
                                  Contains(I, v) => VersionLess(v, <<1, 0, 0>>)
            /\ I = <<[lower |-> <<1, 0, 0>>, upper |-> Unbounded]>> => d.major
            /\ I = <<[lower |-> <<1, 2, 3>>, upper |-> <<1, 3, 0>>]>> =>
                  d.patch /\ ~d.minor

\* The interval of ~1.2.3 with patch true and minor false, beside
\* [1.0.0, unbounded) with major true.
C9_Witness ==
    \E c, e \in Converted :
        /\ intervals[c].interval = <<[lower |-> <<1, 2, 3>>, upper |-> <<1, 3, 0>>]>>
        /\ intervals[c].patch /\ ~intervals[c].minor
        /\ intervals[e].interval = <<[lower |-> <<1, 0, 0>>, upper |-> Unbounded]>>
        /\ intervals[e].major

\* The releases of the package as convert.py persists them.
Persisted == IF pc = "releases" THEN df_releases ELSE {}

\* C10: rank and rank_date are bijections from the retained releases onto
\* 1..N; rank is strictly increasing with the (major, minor, patch) order;
\* rank_date is increasing with date, same-date releases by ascending rank.
C10_DenseRanks ==
    LET N == Cardinality(Persisted)
    IN  /\ { r.rank : r \in Persisted } = 1..N
        /\ { r.rank_date : r \in Persisted } = 1..N
        /\ \A r, s \in Persisted :
              /\ r.rank = s.rank => r = s
              /\ r.rank_date = s.rank_date => r = s
              /\ VersionLess(r.version, s.version) <=> r.rank < s.rank
              /\ r.date < s.date => r.rank_date < s.rank_date
              /\ (r.date = s.date /\ r.rank < s.rank) => r.rank_date < s.rank_date

\* Three retained releases, two of them on the same date, ranked differently
\* by version and by date.
C10_Witness ==
    /\ Cardinality(Persisted) = 3
    /\ \E r, s \in Persisted : r # s /\ r.date = s.date
    /\ \E r \in Persisted : r.rank # r.rank_date

\* The releases of the package have pairwise distinct (major, minor, patch)
\* and version_ranks consistent with the version order.
RanksFollowVersions ==
    \A r, s \in Classified :
        /\ r.version = s.version => r = s
        /\ r.rank < s.rank <=>
              \/ r.version[1] < s.version[1]
              \/ r.version[1] = s.version[1] /\ r.version[2] < s.version[2]
              \/ r.version[1] = s.version[1] /\ r.version[2] = s.version[2]
                    /\ r.version[3] < s.version[3]

\* C11: in a package with distinct triples and version_ranks consistent
\* with the version order, a present backported_from of a backported release
\* b is the rank of exactly one release of the package, which is not b and
\* has a strictly greater version_rank and a strictly greater major than b;
\* the release ranked R is dated no later than b and a release ranked R+1
\* is dated no earlier than b.
C11_BackportedFromIsNewerMajor ==
    RanksFollowVersions =>
        \A b \in Classified :
            b.backported =>
                /\ ~IsNull(b.backported_from) =>
                      /\ Cardinality(Ranked(Value(b.backported_from))) = 1
                      /\ \A t \in Ranked(Value(b.backported_from)) :
                            /\ t # b
                            /\ t.rank > b.rank
                            /\ t.version[1] > b.version[1]
                /\ \A p \in Ranked(RunningRank(b)) : p.date <= b.date
                /\ \A n \in Ranked(RunningRank(b) + 1) : n.date >= b.date

\* A backported release attributed to the release ranked R+1, published
\* strictly later, while the release ranked R is strictly earlier.
C11_Witness ==
    /\ RanksFollowVersions
    /\ \E b \in Classified :
          /\ b.backported
          /\ b.backported_from = Some(RunningRank(b) + 1)
          /\ \E n \in Ranked(RunningRank(b) + 1) : n.date > b.date
          /\ \E p \in Ranked(RunningRank(b)) : p.date < b.date

====
